---- MODULE Spec2Model ----
(***************************************************************************)
(* Model of the MOEX ISS client (src/moex.py, class MoexApi): the login    *)
(* exchange (_auth), the retrying fetch (_load_url) and the data           *)
(* operations built on it (capitalization, realtime_quotes, orderbook,     *)
(* trades, history_price_range).  The upstream servers are the             *)
(* environment: every HTTP exchange draws its outcome from a small set.    *)
(* The client is single threaded: one operation runs at a time, and one    *)
(* action is one iteration of the fetch loop or one handler body between   *)
(* two fetches.                                                            *)
(***************************************************************************)
EXTENDS Integers, Sequences, FiniteSets, TLC

\* ---------------------------------------------------------------- bounds
MaxSpan    == 101   \* largest date_to - date_from of a historical query
MaxBookLen == 6     \* largest number of board rows in an order book
MaxDepth   == 4     \* largest requested order-book depth
MaxPages   == 3     \* pages of the trade feed fetched before the model stops
MaxTradeNo == 3     \* trade numbers are 1..MaxTradeNo

\* ------------------------------------------------------ program constants
N_TRIES       == 5    \* _load_url(n_tries=5)
WINDOW        == 50   \* datetime.timedelta(days=50)
TOKEN_MIN_LEN == 10   \* len(resp.text) > 10
Day0          == 100  \* the date_from of the modelled queries, as a day number

VARIABLES
    login_set,         \* self.login != '' and self.password != ''
    authentification,  \* self.authentification
    token,             \* self.token
    op,                \* the public operation in progress, or "idle"
    pc,                \* its position
    args,              \* its arguments
    lu,                \* locals of the _load_url call in progress
    loc,               \* locals of the operation in progress
    ret,               \* value returned by the last finished operation
    exc                \* exception that left the last finished operation

vars == <<login_set, authentification, token, op, pc, args, lu, loc, ret, exc>>

\* ------------------------------------------------------------ credentials
\* A login body is known by a name and its length (len(resp.text)).
None     == [id |-> "None", len |-> 0]
TokenX   == [id |-> "X", len |-> 32]
TokenY   == [id |-> "Y", len |-> 32]
ShortTxt == [id |-> "no", len |-> 2]
ErrPage  == [id |-> "error page", len |-> 40]
NoCookie == [id |-> "no cookie", len |-> 0]

\* Outcomes of requests.get('https://passport.moex.com/authenticate', ...)
LoginOutcomes ==
    { [kind |-> "raise", status_code |-> 0, text |-> None] } \cup
    { [kind |-> "resp", status_code |-> s, text |-> t] :
        s \in {200}, t \in {TokenX, TokenY, ShortTxt} } \cup
    { [kind |-> "resp", status_code |-> 401, text |-> ErrPage] }

NoLogin == [kind |-> "none", status_code |-> 0, text |-> None]

\* The login outcomes _auth can meet: it sends nothing without credentials.
AuthOutcomes == IF login_set THEN LoginOutcomes ELSE {NoLogin}

\* MoexApi._auth: the fields after the call and the exception leaving it.
_auth(o) ==
    IF login_set /\ o.kind = "raise"
    THEN [exc |-> "ConnectionError",
          authentification |-> authentification, token |-> token]
    ELSE IF login_set /\ o.status_code = 200 /\ o.text.len > TOKEN_MIN_LEN
    THEN [exc |-> "none", authentification |-> TRUE, token |-> o.text]
    ELSE [exc |-> "none", authentification |-> FALSE, token |-> None]

\* _is_token_valid(response_headers=...): the marker defaults to 'denied'.
_is_token_valid(marker) == marker = "granted"

\* ------------------------------------------------------------- responses
Unbound == [kind |-> "unbound", status_code |-> 0, marker |-> "denied"]

\* Outcomes of requests.get(url, headers=headers, timeout=timeout)
GetOutcomes ==
    { [kind |-> "raise", status_code |-> 0, marker |-> "denied"] } \cup
    { [kind |-> "resp", status_code |-> s, marker |-> m] :
        s \in {200, 500}, m \in {"granted", "denied"} } \cup
    { [kind |-> "resp", status_code |-> 403, marker |-> "denied"] }

\* ------------------------------------------------------------ return values
Pending     == [kind |-> "pending", rows |-> <<>>]
RetNone     == [kind |-> "None", rows |-> <<>>]
RetVal(rows) == [kind |-> "value", rows |-> rows]

NoArgs == [ticker |-> "SBER"]
NoLu   == [use_token |-> FALSE, headers |-> NoCookie, tries |-> 0,
           resp |-> Unbound, n_get |-> 0, n_403 |-> 0, n_auth |-> 0,
           only_200 |-> TRUE, rejected |-> NoCookie, refresh |-> "none",
           ret |-> "pending"]
NoLoc  == [phase |-> "none"]

\* ------------------------------------------------------------------- Init
\* MoexApi.__init__ has stored login and password and is about to call _auth.
Init ==
    /\ login_set \in BOOLEAN
    /\ authentification = FALSE
    /\ token = None
    /\ op = "__init__"
    /\ pc = "start"
    /\ args = NoArgs
    /\ lu = NoLu
    /\ loc = NoLoc
    /\ ret = Pending
    /\ exc = "none"

\* MoexApi.__init__: the call of _auth; an exception leaves no client object.
\* loc records the outcome the login request met.
Construct ==
    /\ op = "__init__" /\ pc = "start"
    /\ \E o \in AuthOutcomes :
         LET a == _auth(o) IN
         /\ authentification' = a.authentification
         /\ token' = a.token
         /\ exc' = a.exc
         /\ ret' = IF a.exc = "none" THEN RetNone ELSE Pending
         /\ loc' = [phase |-> "login", outcome |-> o]
         /\ pc' = "done"
    /\ UNCHANGED <<login_set, op, args, lu>>

\* A direct call of _auth on a live client (tests/test_MoexApi.py test_auth).
Auth ==
    /\ op = "idle"
    /\ \E o \in AuthOutcomes :
         LET a == _auth(o) IN
         /\ authentification' = a.authentification
         /\ token' = a.token
         /\ exc' = a.exc
         /\ ret' = IF a.exc = "none" THEN RetNone ELSE Pending
         /\ loc' = [phase |-> "login", outcome |-> o]
    /\ op' = "_auth" /\ pc' = "done"
    /\ args' = NoArgs /\ lu' = NoLu
    /\ UNCHANGED login_set

\* The caller takes the result; the client is ready for the next call.  A
\* constructor that raised leaves no client to call.
Finish ==
    /\ pc = "done"
    /\ ~(op = "__init__" /\ exc # "none")
    /\ op' = "idle" /\ pc' = "start"
    /\ args' = NoArgs /\ lu' = NoLu /\ loc' = NoLoc
    /\ ret' = Pending /\ exc' = "none"
    /\ UNCHANGED <<login_set, authentification, token>>

\* ------------------------------------------------------------- _load_url
\* Entry of _load_url: the headers are built once, from the token of now.
\* tries is the loop index and so the number of GETs issued; resp is the
\* local resp (Unbound until a GET has answered).  The other fields record
\* the exchange: n_get calls of requests.get, n_403 answers with status
\* 403, n_auth calls of _auth, only_200 (every answer so far had status
\* 200), rejected (the Cookie of the first request answered 403), refresh
\* (how the latest call of _auth by this fetch ended) and ret (the value
\* returned).
EnterLoadUrl(use_token) ==
    [use_token |-> use_token,
     headers   |-> IF use_token THEN token ELSE NoCookie,
     tries     |-> 0,
     resp      |-> Unbound,
     n_get     |-> 0,
     n_403     |-> 0,
     n_auth    |-> 0,
     only_200  |-> TRUE,
     rejected  |-> NoCookie,
     refresh   |-> "none",
     ret       |-> "pending"]

\* How a call of _auth ended, given the outcome of its login request.
AuthEnd(o) ==
    IF login_set /\ o.kind = "raise" THEN "raise"
    ELSE IF login_set /\ o.status_code = 200 /\ o.text.len > TOKEN_MIN_LEN
    THEN "accepted" ELSE "rejected"

\* The loop index with a denied attempt repeated instead of counted.
NextTryUncounted(tries, denied) == IF denied THEN tries ELSE tries + 1

\* for _ in range(n_tries): the index after an iteration, 'continue' of a
\* denied attempt included.
NextTry(tries, denied) == tries + 1

\* One iteration of the for loop of _load_url, and the code after the loop
\* when the iteration was the last one.
LoadUrlIter ==
    /\ pc = "fetch"
    /\ lu.tries < N_TRIES
    /\ \E g \in GetOutcomes :
         LET denied == /\ g.kind = "resp"
                       /\ lu.use_token
                       /\ (g.status_code = 403 \/ ~_is_token_valid(g.marker))
             ok     == g.kind = "resp" /\ ~denied /\ g.status_code = 200
             resp1  == IF g.kind = "resp" THEN g ELSE lu.resp
             last   == NextTry(lu.tries, denied) = N_TRIES
         IN
         \E o \in (IF denied THEN AuthOutcomes ELSE {NoLogin}) :
           LET a == _auth(o) IN
           /\ authentification' = IF denied THEN a.authentification
                                  ELSE authentification
           /\ token' = IF denied THEN a.token ELSE token
           /\ lu' = [lu EXCEPT
                       !.tries  = NextTry(@, denied),
                       !.resp   = resp1,
                       !.n_get  = @ + 1,
                       !.refresh = IF denied THEN AuthEnd(o) ELSE @,
                       !.n_403  = IF g.kind = "resp" /\ g.status_code = 403
                                  THEN @ + 1 ELSE @,
                       !.n_auth = IF denied THEN @ + 1 ELSE @,
                       !.only_200 = @ /\ g.kind = "resp" /\ g.status_code = 200,
                       !.rejected = IF /\ g.kind = "resp" /\ g.status_code = 403
                                       /\ lu.n_403 = 0
                                    THEN lu.headers ELSE @,
                       !.ret    = IF ok THEN "resp"
                                  ELSE IF last /\ resp1.kind # "unbound"
                                  THEN "None" ELSE "pending"]
           /\ IF ok \/ (last /\ resp1.kind # "unbound")
              THEN pc' = "fetched" /\ exc' = exc
              ELSE IF last
              THEN pc' = "done" /\ exc' = "UnboundLocalError"
              ELSE pc' = "fetch" /\ exc' = exc
    /\ UNCHANGED <<login_set, op, args, loc, ret>>

\* A direct call of _load_url (tests/test_MoexApi.py test_url_loader).
CallLoadUrl ==
    /\ op = "idle"
    /\ \E u \in BOOLEAN : lu' = EnterLoadUrl(u)
    /\ op' = "_load_url" /\ pc' = "fetch"
    /\ args' = NoArgs /\ loc' = NoLoc
    /\ UNCHANGED <<login_set, authentification, token, ret, exc>>

ReturnLoadUrl ==
    /\ op = "_load_url" /\ pc = "fetched"
    /\ ret' = IF lu.ret = "resp" THEN RetVal(<<lu.resp.status_code>>)
              ELSE RetNone
    /\ pc' = "done"
    /\ UNCHANGED <<login_set, authentification, token, op, args, lu, loc, exc>>

\* ------------------------------------------------------- response payloads
\* One row of a data table: its board, and a value that tells rows apart
\* (capitalization, price level, trade number or trade date).
Row(b, v) == [BOARDID |-> b, VALUE |-> v]

Boards == {"TQBR", "SMAL"}

\* resp.json(): a body with the expected block, a body whose block lacks
\* 'data'/'columns', and a body without the block (or not JSON at all).
Json(data) == [kind |-> "json", data |-> data]
NoKeys     == [kind |-> "nokeys", data |-> <<>>]
BadBody    == [kind |-> "bad", data |-> <<>>]

\* df.loc[df['BOARDID'] == boardid]
FilterBoard(data, boardid) ==
    SelectSeq(data, LAMBDA r : r.BOARDID = boardid)

Values(data) == [i \in 1..Len(data) |-> data[i].VALUE]

\* 'marketdata' tables: up to two rows, over both boards.
MarketData ==
    {<<>>} \cup
    { <<Row(b, 100)>> : b \in Boards } \cup
    { <<Row(b1, 100), Row(b2, 200)>> : b1 \in Boards, b2 \in Boards }

MarketPayloads == { Json(d) : d \in MarketData } \cup {NoKeys, BadBody}

\* ---------------------------------------------------------- capitalization
Capitalization ==
    /\ op = "idle"
    /\ op' = "capitalization" /\ pc' = "fetch"
    /\ args' = [ticker |-> "SBER", boardid |-> "TQBR"]
    /\ lu' = EnterLoadUrl(TRUE)
    /\ loc' = NoLoc
    /\ UNCHANGED <<login_set, authentification, token, ret, exc>>

\* capitalization after resp = self._load_url(url)
CapitalizationParse ==
    /\ op = "capitalization" /\ pc = "fetched"
    /\ IF lu.ret = "None"
       THEN ret' = RetNone /\ exc' = exc
       ELSE \E p \in MarketPayloads :
              LET board == FilterBoard(p.data, args.boardid) IN
              IF p.kind # "json"
              THEN ret' = ret /\ exc' = "KeyError"
              ELSE IF Len(p.data) > 0
              THEN IF Len(board) = 0
                   THEN ret' = ret /\ exc' = "IndexError"
                   ELSE ret' = RetVal(<<board[1].VALUE>>) /\ exc' = exc
              ELSE ret' = RetNone /\ exc' = exc
    /\ pc' = "done"
    /\ UNCHANGED <<login_set, authentification, token, op, args, lu, loc>>

\* --------------------------------------------------------- realtime_quotes
RealtimeQuotes ==
    /\ op = "idle"
    /\ op' = "realtime_quotes" /\ pc' = "fetch"
    /\ args' = [ticker |-> "SBER", boardid |-> "TQBR"]
    /\ lu' = EnterLoadUrl(TRUE)
    /\ loc' = NoLoc
    /\ UNCHANGED <<login_set, authentification, token, ret, exc>>

RealtimeQuotesParse ==
    /\ op = "realtime_quotes" /\ pc = "fetched"
    /\ IF lu.ret = "None"
       THEN ret' = RetNone /\ exc' = exc
       ELSE \E p \in MarketPayloads :
              IF p.kind # "json"
              THEN ret' = ret /\ exc' = "KeyError"
              ELSE /\ ret' = RetVal(Values(FilterBoard(p.data, args.boardid)))
                   /\ exc' = exc
    /\ pc' = "done"
    /\ UNCHANGED <<login_set, authentification, token, op, args, lu, loc>>

\* ---------------------------------------------------------------- orderbook
\* int(x / 2) for an integer x: Python's int() truncates towards zero.
IntHalf(x) == IF x >= 0 THEN x \div 2 ELSE -((-x) \div 2)

\* A slice bound as Python resolves it against a length n: a negative bound
\* counts from the end, and the result is clamped to 0..n.
SliceIndex(i, n) ==
    IF i < 0 THEN (IF i + n < 0 THEN 0 ELSE i + n)
    ELSE IF i > n THEN n ELSE i

\* df.iloc[start:stop] on n rows: the 0-based positions selected, in order.
ILoc(n, start, stop) ==
    LET s == SliceIndex(start, n)
        e == SliceIndex(stop, n)
    IN  [k \in 1..(IF e > s THEN e - s ELSE 0) |-> s + k - 1]

\* The window orderbook keeps of a board-filtered book of n rows:
\* df.iloc[int((n / 2) - depth) : int(n / 2 + depth)]
BookWindow(n, depth) ==
    ILoc(n, IntHalf(n - 2 * depth), IntHalf(n + 2 * depth))

\* An 'orderbook' table: other rows of another board, then n rows of TQBR.
Book(other, n) ==
    [i \in 1..(other + n) |->
        IF i <= other THEN Row("SMAL", i) ELSE Row("TQBR", i - other)]

BookPayloads ==
    { Json(Book(j, n)) : j \in 0..1, n \in 0..MaxBookLen } \cup
    {NoKeys, BadBody}

Orderbook ==
    /\ op = "idle"
    /\ op' = "orderbook" /\ pc' = "fetch"
    /\ \E d \in 1..MaxDepth :
         args' = [ticker |-> "SBER", boardid |-> "TQBR", depth |-> d]
    /\ lu' = EnterLoadUrl(TRUE)
    /\ loc' = NoLoc
    /\ UNCHANGED <<login_set, authentification, token, ret, exc>>

\* orderbook after resp = self._load_url(url); loc records the length of
\* the filtered book the window was cut from.
OrderbookParse ==
    /\ op = "orderbook" /\ pc = "fetched"
    /\ IF lu.ret = "None"
       THEN ret' = RetNone /\ exc' = exc /\ loc' = loc
       ELSE \E p \in BookPayloads :
              LET n   == Len(FilterBoard(p.data, args.boardid))
                  win == BookWindow(n, args.depth)
              IN
              IF p.kind = "bad"
              THEN ret' = ret /\ exc' = "KeyError" /\ loc' = loc
              ELSE IF p.kind = "nokeys"
              THEN ret' = RetNone /\ exc' = exc /\ loc' = loc
              ELSE /\ ret' = IF Len(win) = 0 THEN RetNone ELSE RetVal(win)
                   /\ exc' = exc
                   /\ loc' = [phase |-> "sliced", book_len |-> n]
    /\ pc' = "done"
    /\ UNCHANGED <<login_set, authentification, token, op, args, lu>>

\* ------------------------------------------------------------------ trades
\* Pages of the trade feed: the TRADENO column of a page, a run of
\* consecutive trade numbers (or no row at all).
TradePages ==
    {<<>>} \cup
    { <<a>> : a \in 1..MaxTradeNo } \cup
    { <<a, a + 1>> : a \in 1..(MaxTradeNo - 1) }

TradePayloads == { Json(d) : d \in TradePages } \cup {NoKeys, BadBody}

\* Locals of trades before its loop.  first_trade_num = 0 stands for None,
\* cursor = 0 for additional = ''.  n_pages, prev_last, page_empty and
\* page_first record the pages served so far: how many, the last trade
\* number accumulated before the latest page, and that page's shape.
TradesLocals ==
    [phase |-> "pages", has_df |-> FALSE, result_df |-> <<>>,
     first_trade_num |-> 0, cursor |-> 0,
     n_pages |-> 0, prev_last |-> 0, page_empty |-> FALSE, page_first |-> 0]

Trades ==
    /\ op = "idle"
    /\ op' = "trades" /\ pc' = "fetch"
    /\ args' = [ticker |-> "SBER"]
    /\ lu' = EnterLoadUrl(TRUE)
    /\ loc' = TradesLocals
    /\ UNCHANGED <<login_set, authentification, token, ret, exc>>

\* One pass of the while loop of trades after resp = self._load_url(...),
\* up to the return or to the next call of _load_url.  The model follows a
\* call for MaxPages pages: the feed is exhausted by then.
TradesPage ==
    /\ op = "trades" /\ pc = "fetched"
    /\ IF lu.ret = "None"
       THEN /\ ret' = RetNone /\ exc' = exc /\ pc' = "done"
            /\ loc' = loc /\ lu' = lu
       ELSE \E p \in TradePayloads :
              LET cur   == p.data
                  seen  == [loc EXCEPT
                              !.n_pages    = @ + 1,
                              !.prev_last  = IF Len(loc.result_df) > 0
                                             THEN loc.result_df[Len(loc.result_df)]
                                             ELSE 0,
                              !.page_empty = Len(cur) = 0,
                              !.page_first = IF Len(cur) > 0 THEN cur[1] ELSE 0]
                  stop  == /\ loc.has_df
                           /\ (Len(cur) = 0 \/ cur[1] = loc.first_trade_num)
                  df    == IF loc.has_df THEN loc.result_df \o cur ELSE cur
                  first == IF loc.has_df THEN df[1] ELSE loc.first_trade_num
              IN
              IF p.kind # "json"
              THEN /\ ret' = ret /\ exc' = "KeyError" /\ pc' = "done"
                   /\ loc' = loc /\ lu' = lu
              ELSE IF stop
              THEN /\ ret' = RetVal(loc.result_df) /\ exc' = exc /\ pc' = "done"
                   /\ loc' = seen /\ lu' = lu
              ELSE IF Len(df) = 0
              THEN \* result_df.loc[len(result_df) - 1, 'TRADENO'] on no rows
                   /\ ret' = ret /\ exc' = "KeyError" /\ pc' = "done"
                   /\ loc' = [seen EXCEPT !.has_df = TRUE, !.result_df = df]
                   /\ lu' = lu
              ELSE /\ seen.n_pages < MaxPages
                   /\ ret' = ret /\ exc' = exc /\ pc' = "fetch"
                   /\ loc' = [seen EXCEPT !.has_df = TRUE,
                                          !.result_df = df,
                                          !.first_trade_num = first,
                                          !.cursor = df[Len(df)]]
                   /\ lu' = EnterLoadUrl(TRUE)
    /\ UNCHANGED <<login_set, authentification, token, op, args>>

\* ------------------------------------------------------ history_price_range
\* The history the exchange serves.  Dates are day numbers.
\*   "daily":    every day is a trade day; exactly the rows asked for.
\*   "weekdays": no trades on two days of seven (Day0 is one of them); the
\*               answer also carries rows of another board and the days
\*               next to the asked range.
\*   "empty":    no row at all.
Feeds == {"daily", "weekdays", "empty"}

IsTradeDay(feed, d) ==
    \/ feed = "daily"
    \/ feed = "weekdays" /\ d % 7 \notin {2, 3}

DayRows(feed, d) ==
    IF ~IsTradeDay(feed, d) THEN <<>>
    ELSE IF feed = "weekdays" /\ d % 7 = 0
    THEN <<Row("SMAL", d), Row("TQBR", d)>>
    ELSE <<Row("TQBR", d)>>

RECURSIVE RowsBetween(_, _, _)
RowsBetween(feed, a, b) ==
    IF a > b THEN <<>>
    ELSE DayRows(feed, a) \o RowsBetween(feed, a + 1, b)

\* The 'history' table answered to ...?from=a&till=b
HistoryData(feed, a, b) ==
    IF feed = "weekdays" THEN RowsBetween(feed, a - 1, b + 1)
    ELSE RowsBetween(feed, a, b)

\* _history_price_range after a successful fetch: the TRADEDATE of the rows
\* of the board dated between date_from and date_to, both included.
WindowRows(data, boardid, date_from, date_to) ==
    Values(SelectSeq(data, LAMBDA r : /\ r.BOARDID = boardid
                                      /\ r.VALUE >= date_from
                                      /\ r.VALUE <= date_to))

Window(a, b) == [date_from |-> a, date_to |-> b]

\* parse_times = n_days // 50, plus one if n_days % 50 != 0
ParseTimes(n_days) ==
    (n_days \div WINDOW) + (IF n_days % WINDOW # 0 THEN 1 ELSE 0)

\* df.tail(1)
Tail1(rows) == IF Len(rows) = 0 THEN <<>> ELSE <<rows[Len(rows)]>>

\* history_price_range from the end of its for loop, with locals l: the
\* return, or the call for the anchor window.  date_from < TRADEDATE is
\* taken as the order of the two dates.
HistoryAfterLoop(l) ==
    IF Len(l.result_df) < 1
    THEN ret' = RetNone /\ pc' = "done" /\ loc' = l /\ lu' = lu
    ELSE IF l.one_row
    THEN ret' = RetVal(Tail1(l.result_df)) /\ pc' = "done"
         /\ loc' = l /\ lu' = lu
    ELSE IF args.previous_from_date /\ args.date_from < l.result_df[1]
    THEN /\ ret' = ret /\ pc' = "fetch"
         /\ loc' = [l EXCEPT !.phase = "anchor"]
         /\ lu' = EnterLoadUrl(FALSE)
    ELSE ret' = RetVal(l.result_df) /\ pc' = "done" /\ loc' = l /\ lu' = lu

\* history_price_range up to the first call of _history_price_range.  A
\* call without date_from has date_from = 0.  windows lists the windows the
\* loop passed to _history_price_range and failed the index of the one whose
\* fetch returned None (0: none).
HistoryPriceRange ==
    /\ op = "idle"
    /\ \E span \in 0..MaxSpan, given \in BOOLEAN, prev \in BOOLEAN,
          feed \in Feeds :
         LET date_to == Day0 + span
             from    == IF given THEN Day0 ELSE date_to - WINDOW
             times   == ParseTimes(date_to - from)
             l       == [phase |-> "windows", feed |-> feed,
                         one_row |-> ~given,
                         current_date_from |-> from,
                         date_to |-> from + WINDOW,
                         parse_times |-> times, i |-> 0,
                         result_df |-> <<>>,
                         windows |-> IF times > 0
                                     THEN <<Window(from, from + WINDOW)>>
                                     ELSE <<>>,
                         failed |-> 0]
         IN
         /\ given \/ ~prev
         /\ args' = [ticker |-> "SBER", boardid |-> "TQBR",
                     date_from |-> IF given THEN Day0 ELSE 0,
                     date_to |-> date_to, previous_from_date |-> prev]
         /\ IF times > 0
            THEN /\ pc' = "fetch" /\ lu' = EnterLoadUrl(FALSE)
                 /\ loc' = l /\ ret' = ret
            ELSE /\ lu' = NoLu
                 /\ HistoryAfterLoop([l EXCEPT !.date_to = date_to])
    /\ op' = "history_price_range"
    /\ UNCHANGED <<login_set, authentification, token, exc>>

\* The loop body with the failed window skipped instead of ending the loop.
HistoryWindowSkipped ==
    LET from == loc.current_date_from + WINDOW
        l    == [loc EXCEPT !.failed = loc.i + 1,
                            !.current_date_from = from,
                            !.i = @ + 1]
    IN
    /\ exc' = exc
    /\ IF l.i < l.parse_times
       THEN /\ loc' = [l EXCEPT
                         !.date_to = from + WINDOW,
                         !.windows = Append(@, Window(from, from + WINDOW))]
            /\ pc' = "fetch" /\ lu' = EnterLoadUrl(FALSE) /\ ret' = ret
       ELSE HistoryAfterLoop(l)

\* The loop body when _history_price_range returned None: break.
HistoryWindowFailed ==
    /\ HistoryAfterLoop([loc EXCEPT !.failed = loc.i + 1])
    /\ exc' = exc

\* One pass of the for loop after the fetch of _history_price_range, up to
\* the next fetch or through the code after the loop.
HistoryWindow ==
    /\ op = "history_price_range" /\ pc = "fetched" /\ loc.phase = "windows"
    /\ IF lu.ret = "None"
       THEN HistoryWindowFailed
       ELSE \E p \in {Json(HistoryData(loc.feed, loc.current_date_from,
                                       loc.date_to)), BadBody} :
              LET df   == WindowRows(p.data, args.boardid,
                                     loc.current_date_from, loc.date_to)
                  from == loc.current_date_from + WINDOW
                  l    == [loc EXCEPT !.result_df = @ \o df,
                                      !.current_date_from = from,
                                      !.i = @ + 1]
              IN
              IF p.kind # "json"
              THEN /\ exc' = "KeyError" /\ pc' = "done"
                   /\ ret' = ret /\ loc' = loc /\ lu' = lu
              ELSE IF l.i < l.parse_times
              THEN /\ loc' = [l EXCEPT
                                !.date_to = from + WINDOW,
                                !.windows = Append(@, Window(from, from + WINDOW))]
                   /\ pc' = "fetch" /\ lu' = EnterLoadUrl(FALSE)
                   /\ ret' = ret /\ exc' = exc
              ELSE HistoryAfterLoop(l) /\ exc' = exc
    /\ UNCHANGED <<login_set, authentification, token, op, args>>

\* The anchor row: the fetch of the 50 days before date_from, df.tail(1)
\* and the concatenation in front of the result.
HistoryAnchor ==
    /\ op = "history_price_range" /\ pc = "fetched" /\ loc.phase = "anchor"
    /\ LET a == args.date_from - WINDOW
           b == args.date_from
       IN
       IF lu.ret = "None"
       THEN ret' = ret /\ exc' = "AttributeError" /\ loc' = loc
       ELSE \E p \in {Json(HistoryData(loc.feed, a, b)), BadBody} :
              LET df == WindowRows(p.data, args.boardid, a, b) IN
              IF p.kind # "json"
              THEN ret' = ret /\ exc' = "KeyError" /\ loc' = loc
              ELSE /\ ret' = RetVal(Tail1(df) \o loc.result_df)
                   /\ exc' = exc
                   /\ loc' = [loc EXCEPT !.phase = "anchored"]
    /\ pc' = "done"
    /\ UNCHANGED <<login_set, authentification, token, op, args, lu>>

Next ==
    \/ Construct
    \/ Auth
    \/ Finish
    \/ CallLoadUrl
    \/ LoadUrlIter
    \/ ReturnLoadUrl
    \/ Capitalization
    \/ CapitalizationParse
    \/ RealtimeQuotes
    \/ RealtimeQuotesParse
    \/ Orderbook
    \/ OrderbookParse
    \/ Trades
    \/ TradesPage
    \/ HistoryPriceRange
    \/ HistoryWindow
    \/ HistoryAnchor

Spec == Init /\ [][Next]_vars

\* The client used for its fetch only: construction, _auth and direct calls
\* of _load_url.  requests.get answers or times out (timeout=10), so a
\* started loop iteration always completes.
FetchNext ==
    \/ Construct
    \/ Auth
    \/ Finish
    \/ CallLoadUrl
    \/ LoadUrlIter
    \/ ReturnLoadUrl

FairFetch == Init /\ [][FetchNext]_vars /\ WF_vars(LoadUrlIter)

\* ================================================================ properties
DataOps == {"capitalization", "realtime_quotes", "orderbook", "trades",
            "history_price_range"}

NoDuplicates(rows) ==
    \A i, j \in 1..Len(rows) : i # j => rows[i] # rows[j]

NonDecreasing(rows) ==
    \A i \in 1..(Len(rows) - 1) : rows[i] <= rows[i + 1]

\* The rows the first n of the given windows hold in the exchange's history.
RECURSIVE RowsOfWindows(_, _, _, _)
RowsOfWindows(feed, boardid, windows, n) ==
    IF n = 0 THEN <<>>
    ELSE RowsOfWindows(feed, boardid, windows, n - 1) \o
         WindowRows(HistoryData(feed, windows[n].date_from, windows[n].date_to),
                    boardid, windows[n].date_from, windows[n].date_to)

\* C1: a fetch with a credential X attached whose requests were answered
\* 403, 403, 200, and after which the client holds another credential Y, has
\* called _auth exactly once, and its last request carried the refreshed
\* credential (the client's token), not the one that was rejected.
ReactiveRefresh ==
    (/\ pc = "fetched" /\ lu.use_token /\ lu.ret = "resp"
     /\ lu.tries = 3 /\ lu.n_403 = 2
     /\ lu.rejected.len > TOKEN_MIN_LEN
     /\ token.len > TOKEN_MIN_LEN /\ token # lu.rejected)
    => /\ lu.n_auth = 1
       /\ lu.headers = token
       /\ lu.headers # lu.rejected

\* C2: once the loop of history_price_range has passed all its windows, for
\* a call with date_from <= date_to, every date of [date_from, date_to] lies
\* in one of them and no window is longer than 50 days.
ChunkingCoversRange ==
    (/\ op = "history_price_range" /\ ~loc.one_row
     /\ loc.i = loc.parse_times /\ loc.failed = 0)
    => /\ \A d \in args.date_from..args.date_to :
            \E k \in 1..Len(loc.windows) :
               /\ loc.windows[k].date_from <= d
               /\ d <= loc.windows[k].date_to
       /\ \A k \in 1..Len(loc.windows) :
            loc.windows[k].date_to - loc.windows[k].date_from <= WINDOW

\* C3: when the page Pn (n >= 2) that trades has just been served is empty,
\* or starts with the last trade number accumulated from P1..Pn-1, trades
\* has returned: it issues no further request and its result is the
\* accumulated pages, in fetch order, with no trade number twice.
PaginationTermination ==
    (/\ op = "trades" /\ loc.n_pages >= 2
     /\ (loc.page_empty \/ (loc.prev_last # 0 /\ loc.page_first = loc.prev_last)))
    => /\ pc = "done" /\ exc = "none"
       /\ ret.kind = "value"
       /\ ret.rows = loc.result_df
       /\ NoDuplicates(ret.rows)

\* C4: for a board-filtered book of L rows and depth D, orderbook returns the
\* 2*D rows L/2 - D .. L/2 + D - 1 when D <= L/2, None when the slice is
\* empty, and in every case a run of consecutive rows that reaches both
\* sides of the midpoint.
OrderbookWindow ==
    (op = "orderbook" /\ pc = "done" /\ loc.phase = "sliced")
    => LET L == loc.book_len
           D == args.depth
           n == Len(ret.rows)
       IN
       /\ 2 * D <= L =>
            /\ ret.kind = "value"
            /\ ret.rows = [k \in 1..(2 * D) |-> (L \div 2) - D + k - 1]
       /\ Len(BookWindow(L, D)) = 0 => ret.kind = "None"
       /\ ret.kind = "value" =>
            /\ \A k \in 1..(n - 1) : ret.rows[k + 1] = ret.rows[k] + 1
            /\ 2 * ret.rows[1] <= L
            /\ L <= 2 * (ret.rows[n] + 1)

\* C5: whatever the login request met, _auth (and the constructor) returns
\* normally, and unless the login was accepted the client is unauthenticated.
AuthNeverFails ==
    (op \in {"__init__", "_auth"} /\ pc = "done")
    => /\ exc = "none"
       /\ ~(/\ loc.outcome.kind = "resp" /\ loc.outcome.status_code = 200
            /\ loc.outcome.text.len > TOKEN_MIN_LEN)
          => (authentification = FALSE /\ token = None)

\* C6: capitalization called by an unauthenticated client (token None) whose
\* requests were all answered 200 without the 'granted' marker returns the
\* capitalization value.
AnonymousFallback ==
    (/\ op = "capitalization" /\ pc = "done"
     /\ lu.headers = None /\ lu.only_200 /\ lu.n_auth = lu.tries)
    => ret.kind = "value"

\* C7: a direct call of _load_url in which all n_tries attempts failed ends
\* by returning None, without an exception.
TerminalFailure ==
    (/\ op = "_load_url" /\ pc \in {"fetched", "done"}
     /\ lu.tries = N_TRIES /\ lu.ret # "resp")
    => exc = "none" /\ lu.ret = "None"

\* C8: every data operation ends by returning a result or None, never by an
\* exception.
AbsenceOnFailure ==
    (op \in DataOps /\ pc = "done")
    => exc = "none" /\ ret.kind \in {"None", "value"}

\* C9: the windows history_price_range fetches for [date_from, date_to] are
\* pairwise disjoint and lie inside [date_from, date_to].
WindowsDisjointInside ==
    (op = "history_price_range" /\ ~loc.one_row)
    => /\ \A j, k \in 1..Len(loc.windows) :
            j < k => loc.windows[j].date_to < loc.windows[k].date_from
       /\ \A k \in 1..Len(loc.windows) :
            /\ args.date_from <= loc.windows[k].date_from
            /\ loc.windows[k].date_to <= args.date_to

\* What C10 says of a call whose window number loc.failed returned None.
EarlyStopHolds ==
    LET rows == RowsOfWindows(loc.feed, args.boardid, loc.windows,
                              loc.failed - 1)
    IN
    /\ Len(loc.windows) = loc.failed
    /\ pc = "done" =>
         /\ exc = "none"
         /\ ret.kind = "None" <=> Len(rows) = 0
         /\ ret.kind = "value" =>
              /\ ret.rows = (IF loc.one_row THEN Tail1(rows) ELSE rows)
              /\ NonDecreasing(ret.rows)

\* C10 as stated: when the fetch of window k returns None, no later window
\* is fetched and the call returns exactly the rows of windows 1..k-1, in
\* chronological order, and None if and only if there is no such row.
EarlyStopAnyCall ==
    (op = "history_price_range" /\ loc.failed > 0) => EarlyStopHolds

\* C10, amended: the same, for calls with previous_from_date = False.
EarlyStop ==
    (/\ op = "history_price_range" /\ loc.failed > 0
     /\ ~args.previous_from_date)
    => EarlyStopHolds

\* C10, witness: a call with previous_from_date = False whose second window
\* failed has returned the rows of the first.
EarlyStopWitness ==
    /\ op = "history_price_range" /\ pc = "done"
    /\ ~args.previous_from_date /\ ~loc.one_row
    /\ loc.failed = 2 /\ ret.kind = "value" /\ Len(ret.rows) > 1


\* A response _load_url returns: status 200 and, for a fetch with the token,
\* not denied.
Accepted(r, use_token) ==
    /\ r.kind = "resp" /\ r.status_code = 200
    /\ use_token => _is_token_valid(r.marker)

\* C11, in every state: a call of _load_url has issued at most n_tries GETs,
\* denied attempts included; it is in its loop only while fewer than n_tries
\* were issued and none was answered by an accepted response; what it
\* returns as a response is an accepted one.
BoundedRetryInv ==
    /\ lu.n_get <= N_TRIES
    /\ lu.n_auth <= lu.n_get
    /\ lu.n_403 <= lu.n_get
    /\ pc = "fetch" => /\ lu.n_get < N_TRIES
                       /\ ~Accepted(lu.resp, lu.use_token)
                       /\ lu.ret = "pending"
    /\ lu.ret = "resp" => Accepted(lu.resp, lu.use_token)

Live == ~(op = "__init__" /\ (pc = "start" \/ exc # "none"))

\* The latest call of _auth, by the constructor, by the caller or by the
\* fetch in progress, did not end with an accepted login.
LastAuthFailed ==
    \/ /\ op \in {"__init__", "_auth"} /\ pc = "done"
       /\ AuthEnd(loc.outcome) # "accepted"
    \/ lu.n_auth > 0 /\ lu.refresh # "accepted"

\* The flag and the token agree.
FlagMatchesToken ==
    /\ authentification <=> (token # None /\ token.len > TOKEN_MIN_LEN)
    /\ ~authentification <=> token = None

\* C12: on a live client authentification is True exactly when token is a
\* string accepted at login (longer than 10) and False exactly when token is
\* None, and after a call of _auth that failed the client is unauthenticated.
CredentialState ==
    Live => /\ FlagMatchesToken
            /\ LastAuthFailed => (authentification = FALSE /\ token = None)

====
